---- MODULE Spec2Model ----
(***************************************************************************)
(* Model of bot.py: the per-user rate limiter (UserRateLimit), the         *)
(* completion client (AIProvider.get_response under its tenacity retry     *)
(* decorator) and the message handler (handle_message) that ties them.     *)
(*                                                                         *)
(* handle_message is a coroutine: it can be suspended only at an await.    *)
(* Each action below is the code between two suspension points of one      *)
(* handler task; several tasks are in flight at once.                      *)
(***************************************************************************)
EXTENDS Integers, Sequences, FiniteSets, TLC

\* ------------------------------------------------------------------ bounds
MaxTime == 4          \* the clock runs over 0..MaxTime
HourLen == 2          \* ticks in one clock hour
MaxQuota == 2         \* max_messages_per_hour is drawn from 0..MaxQuota
MaxCooldown == 1      \* cooldown_seconds is drawn from 0..MaxCooldown

\* --------------------------------------------------------- program constants
MaxAttempts == 3      \* stop_after_attempt(3)

Users == {"u1", "u2"}
Handlers == {"h1", "h2"}
None == "None"

\* update.effective_chat.type
ChatTypes == {"private", "group"}

\* The groups the bot can be added to, by chat id; a message of a group
\* carries the group's id as its chat.
Groups == {"g1", "g2"}

\* update.message.text, by what the handler can tell apart:
\*   notext       no text at all
\*   blank        only whitespace
\*   plain        a question without the bot's mention
\*   mentiononly  the bot's mention and nothing else
\*   mentionq     the bot's mention and a question
TextKinds == {"notext", "blank", "plain", "mentiononly", "mentionq"}

HasText(t) == t # "notext"
HasMention(t) == t \in {"mentiononly", "mentionq"}

\* question of handle_message: TRUE iff the stripped question is non-empty.
\* private: text.strip(); group: text.replace(mention, '').strip()
Question(chat, t) ==
    IF chat = "private" THEN t \in {"plain", "mentiononly", "mentionq"}
    ELSE t = "mentionq"

VARIABLES
    clock,              \* datetime.now()
    max_messages,       \* UserRateLimit.max_messages
    cooldown_time,      \* UserRateLimit.cooldown_time
    allowed_users,      \* CONFIG['telegram']['allowed_users']
    allowed_groups,     \* CONFIG['telegram'].get('allowed_groups'): whether
                        \* the key is present, and the ids listed
    chats,              \* per group: is the bot "out", "in", or has it
                        \* "left" on its own; the replies to the last join
    last_message_time,  \* UserRateLimit.last_message_time (dict)
    message_count,      \* UserRateLimit.message_count (defaultdict(int))
    reset_time,         \* UserRateLimit.reset_time (dict)
    task,               \* the handle_message tasks in flight
    sent                \* history: per user, the time of the last admitted
                        \* message and how many admitted messages fall in
                        \* its clock hour

vars == <<clock, max_messages, cooldown_time, allowed_users, allowed_groups,
          chats, last_message_time, message_count, reset_time, task, sent>>

config == <<max_messages, cooldown_time, allowed_users, allowed_groups>>
rate == <<last_message_time, message_count, reset_time>>

\* dict helpers
Put(d, k, v) == [x \in (DOMAIN d) \cup {k} |-> IF x = k THEN v ELSE d[x]]
Get0(d, k) == IF k \in DOMAIN d THEN d[k] ELSE 0
EmptyDict == [x \in {} |-> 0]

\* ------------------------------------------------------------ UserRateLimit
\* now.replace(minute=0, second=0, microsecond=0) + timedelta(hours=1)
next_hour_plus(now) == now + HourLen

next_hour(now) == (now \div HourLen) * HourLen + HourLen

\* "Reset counter": the message_count dict after the first statement of
\* can_send_message.
reset_counter_decrement(count, reset, user_id, now) ==
    IF user_id \in DOMAIN reset /\ now > reset[user_id]
    THEN Put(count, user_id, Get0(count, user_id) - 1)
    ELSE count

reset_counter_all(count, reset, user_id, now) ==
    IF user_id \in DOMAIN reset /\ now > reset[user_id]
    THEN [x \in DOMAIN count |-> 0]
    ELSE count

reset_counter(count, reset, user_id, now) ==
    IF user_id \in DOMAIN reset /\ now > reset[user_id]
    THEN Put(count, user_id, 0)
    ELSE count

\* "Check frequency": TRUE iff can_send_message returns False there.
too_frequent_short(last, user_id, now) ==
    user_id \in DOMAIN last /\ now - last[user_id] < cooldown_time - 1

too_frequent(last, user_id, now) ==
    user_id \in DOMAIN last /\ now - last[user_id] < cooldown_time

\* The final comparison of can_send_message, on the user's count c.
under_limit_inclusive(c) == c <= max_messages
under_limit_early(c) == c + 1 < max_messages

under_limit(c) == c < max_messages

\* can_send_message(user_id) at time now, on the dicts (last, count, reset).
\* Returns the verdict and the message_count dict as the call leaves it; the
\* call writes neither last_message_time nor reset_time.  why tells which
\* return statement decided: "cooldown" (return False in the frequency check),
\* "quota" / "admitted" (the final comparison; reading message_count[user_id]
\* creates the defaultdict entry).
can_send_message_noquota(last, count, reset, user_id, now) ==
    LET c1 == reset_counter(count, reset, user_id, now)
    IN  IF too_frequent(last, user_id, now)
        THEN [ok |-> FALSE, why |-> "cooldown", count |-> c1]
        ELSE [ok |-> TRUE, why |-> "admitted",
              count |-> Put(c1, user_id, Get0(c1, user_id))]

can_send_message(last, count, reset, user_id, now) ==
    LET c1 == reset_counter(count, reset, user_id, now)
    IN  IF too_frequent(last, user_id, now)
        THEN [ok |-> FALSE, why |-> "cooldown", count |-> c1]
        ELSE LET c2 == Put(c1, user_id, Get0(c1, user_id))
             IN  IF under_limit(c2[user_id])
                 THEN [ok |-> TRUE, why |-> "admitted", count |-> c2]
                 ELSE [ok |-> FALSE, why |-> "quota", count |-> c2]

\* update_user that keeps the time of a user it already knows.
update_user_lost(last, count, reset, user_id, now) ==
    [last  |-> IF user_id \in DOMAIN last THEN last ELSE Put(last, user_id, now),
     count |-> Put(count, user_id, Get0(count, user_id) + 1),
     reset |-> Put(reset, user_id, next_hour(now))]

\* update_user(user_id) at time now.
update_user(last, count, reset, user_id, now) ==
    [last  |-> Put(last, user_id, now),
     count |-> Put(count, user_id, Get0(count, user_id) + 1),
     reset |-> Put(reset, user_id, next_hour(now))]

\* --------------------------------------------------------------- AIProvider
T1 == <<"a">>
T3 == <<"a", "b", "c">>

\* What one requests.post can come back with.  status 0: no response at all
\* (ConnectionError / Timeout raised by requests.post).
NoResponse == [status |-> 0, haskey |-> FALSE, content |-> <<>>]
Http(s) == [status |-> s, haskey |-> FALSE, content |-> <<>>]
Ok(c) == [status |-> 200, haskey |-> TRUE, content |-> c]
Responses ==
    {NoResponse, Http(400), Http(500), Http(200), Ok(<<>>), Ok(<<T1>>), Ok(<<T3, T1>>)}

\* One execution of the body of get_response on response r: the text it
\* returns, or the exception it raises.
get_response_once_last(r) ==
    IF r.status = 0
    THEN [ok |-> FALSE, exc |-> "RequestException", text |-> <<>>]
    ELSE IF r.status >= 400
    THEN [ok |-> FALSE, exc |-> "RequestException", text |-> <<>>]
    ELSE IF r.haskey /\ Len(r.content) > 0
    THEN [ok |-> TRUE, exc |-> None, text |-> r.content[Len(r.content)]]
    ELSE [ok |-> FALSE, exc |-> "Exception", text |-> <<>>]

get_response_once(r) ==
    IF r.status = 0
    THEN [ok |-> FALSE, exc |-> "RequestException", text |-> <<>>]
    ELSE IF r.status >= 400     \* response.raise_for_status()
    THEN [ok |-> FALSE, exc |-> "RequestException", text |-> <<>>]
    ELSE IF r.haskey /\ Len(r.content) > 0
    THEN [ok |-> TRUE, exc |-> None, text |-> r.content[1]]
    ELSE [ok |-> FALSE, exc |-> "Exception", text |-> <<>>]

\* @retry(stop=stop_after_attempt(3), ...): no retry= argument, so every
\* exception is retried; tenacity stops once attempt_number >= 3.
should_retry_inclusive(attempt_number, outcome) ==
    ~outcome.ok /\ attempt_number <= MaxAttempts
should_retry_twice(attempt_number, outcome) ==
    ~outcome.ok /\ attempt_number < MaxAttempts - 1

should_retry(attempt_number, outcome) ==
    ~outcome.ok /\ attempt_number < MaxAttempts

\* wait_exponential(multiplier=1, min=4, max=10): the sleep after failed
\* attempt attempt_number, max(max(0, min), min(multiplier * 2^(n-1), max)).
Multiplier == 1
WaitMin == 4
WaitMax == 10
Max2(a, b) == IF a >= b THEN a ELSE b
Min2(a, b) == IF a <= b THEN a ELSE b
wait_exponential_nofloor(attempt_number) ==
    Min2(Multiplier * 2^(attempt_number - 1), WaitMax)

wait_exponential(attempt_number) ==
    Max2(Max2(0, WaitMin), Min2(Multiplier * 2^(attempt_number - 1), WaitMax))

\* What the decorated get_response raises once it stops retrying (reraise is
\* not set): tenacity's RetryError, whatever the last attempt raised.
RetryError == [ok |-> FALSE, exc |-> "RetryError", text |-> <<>>]

\* ------------------------------------------------------------ handle_message
MaxResponseLength == 2    \* CONFIG['telegram']['max_response_length']
Marker == <<"...(response truncated)">>

Truncate(text) ==
    IF Len(text) > MaxResponseLength
    THEN SubSeq(text, 1, MaxResponseLength) \o Marker
    ELSE text

Reply(kind, text) == [kind |-> kind, text |-> text]
NoPermission == Reply("noperm", <<>>)
AskQuestion  == Reply("ask", <<>>)
TooFrequent  == Reply("toofast", <<>>)
GenericError == Reply("error", <<>>)

\* The except clause of handle_message on exception exc: the exception goes
\* to the log, the chat gets the fixed text.
error_reply_leak(exc) == Reply("error", <<exc>>)

error_reply(exc) == GenericError

\* A handler task: where it is (pc), the update it handles (user, chat,
\* text), how it was routed (why), the responses its get_response call has
\* received so far (hist), what the call gave the handler in the end (result)
\* and the replies it has sent.
NoResult == [ok |-> FALSE, exc |-> None, text |-> <<>>]
Idle == [pc |-> "idle", user |-> None, chat |-> None, text |-> None,
         why |-> None, hist |-> <<>>, waits |-> <<>>, result |-> NoResult,
         replies |-> <<>>]

Finished(h) == task[h].pc \in {"idle", "done", "cancelled"}
End(u, why, replies) ==
    [Idle EXCEPT !.pc = "done", !.user = u, !.why = why, !.replies = replies]

\* The state after construction, for a configuration (max_messages_per_hour,
\* cooldown_seconds, allowed_users) drawn from the given sets.
Start(quotas, cooldowns, allowlists) ==
    /\ clock = 0
    /\ max_messages \in quotas
    /\ cooldown_time \in cooldowns
    /\ allowed_users \in allowlists
    /\ last_message_time = EmptyDict
    /\ message_count = EmptyDict
    /\ reset_time = EmptyDict
    /\ task = [h \in Handlers |-> Idle]
    /\ sent = EmptyDict

\* The group allow-list and the bot's memberships when the process starts.
\* Updates that arrived while the process was down are dropped
\* (drop_pending_updates=True), so the bot may start as a member of a group
\* whose join it never handled.
Unset == [present |-> FALSE, list |-> {}]
Listed(ids) == [present |-> TRUE, list |-> ids]
StartChats(grouplists, memberships) ==
    /\ allowed_groups \in grouplists
    /\ chats \in [Groups -> [bot : memberships, replies : {<<>>}]]

\* "Check user permissions": an empty allow-list admits everyone.
authorized_lax(user_id) == allowed_users = {} \/ user_id \in Users

authorized(user_id) == ~(allowed_users # {} /\ user_id \notin allowed_users)

\* Time passes.
Tick ==
    /\ clock < MaxTime
    /\ clock' = clock + 1
    /\ UNCHANGED <<config, chats, rate, task, sent>>

\* An update arrives and a handler task runs up to its first await:
\* the text test, the allow-list test, then await context.bot.get_me().
Receive(h, u, chat, t) ==
    /\ Finished(h)
    /\ chat \in Groups => chats[chat].bot = "in"
    /\ IF ~HasText(t)
       THEN task' = [task EXCEPT ![h] = End(u, "notext", <<>>)]
       ELSE IF ~authorized(u)
       THEN task' = [task EXCEPT ![h] =
                [End(u, "unauthorized", <<NoPermission>>)
                    EXCEPT !.chat = chat, !.text = t]]
       ELSE task' = [task EXCEPT ![h] =
                [Idle EXCEPT !.pc = "get_me", !.user = u, !.chat = chat,
                             !.text = t]]
    /\ UNCHANGED <<clock, config, chats, rate, sent>>

\* The history of admitted messages after user u's message is recorded at
\* time now.
Record(u, now) ==
    Put(sent, u, [at |-> now,
                  n  |-> IF u \in DOMAIN sent /\ next_hour(sent[u].at) = next_hour(now)
                         THEN sent[u].n + 1 ELSE 1])

\* get_me has returned: the mention test, the empty-question test, the rate
\* limit check and, when admitted, update_user; no await lies between the
\* check and the update.  The two datetime.now() calls may read different
\* times (d ticks apart).
Process(h, d) ==
    /\ task[h].pc = "get_me"
    /\ clock + d <= MaxTime
    /\ LET me == task[h]
           u  == me.user
           chk == can_send_message(last_message_time, message_count,
                                   reset_time, u, clock)
           upd == update_user(last_message_time, chk.count, reset_time,
                              u, clock + d)
       IN  IF me.chat # "private" /\ ~HasMention(me.text)
           THEN /\ d = 0
                /\ task' = [task EXCEPT ![h] = End(u, "nomention", <<>>)]
                /\ UNCHANGED <<clock, rate, sent>>
           ELSE IF ~Question(me.chat, me.text)
           THEN /\ d = 0
                /\ task' = [task EXCEPT ![h] = End(u, "empty", <<AskQuestion>>)]
                /\ UNCHANGED <<clock, rate, sent>>
           ELSE IF ~chk.ok
           THEN /\ d = 0
                /\ message_count' = chk.count
                /\ task' = [task EXCEPT ![h] = End(u, chk.why, <<TooFrequent>>)]
                /\ UNCHANGED <<clock, last_message_time, reset_time, sent>>
           ELSE /\ clock' = clock + d
                /\ last_message_time' = upd.last
                /\ message_count' = upd.count
                /\ reset_time' = upd.reset
                /\ sent' = Record(u, clock + d)
                /\ task' = [task EXCEPT ![h] =
                        [Idle EXCEPT !.pc = "call", !.user = u, !.why = "admitted"]]
    /\ UNCHANGED <<config, chats>>

\* One attempt of get_response on response r, and what follows it without a
\* suspension: on success the truncation and the reply; on failure either
\* the backoff sleep, or (attempts used up) tenacity's RetryError, which
\* handle_message catches and answers with the generic message.
Attempt_refund(h, r) ==
    /\ task[h].pc = "call"
    /\ LET hist == Append(task[h].hist, r)
           out == get_response_once(r)
           u == task[h].user
       IN  /\ task' = [task EXCEPT ![h] =
                  IF out.ok
                  THEN [@ EXCEPT !.pc = "done", !.hist = hist, !.result = out,
                                 !.replies = <<Reply("text", Truncate(out.text))>>]
                  ELSE IF should_retry(Len(hist), out)
                  THEN [@ EXCEPT !.pc = "sleep", !.hist = hist,
                              !.waits = Append(@, wait_exponential(Len(hist)))]
                  ELSE [@ EXCEPT !.pc = "done", !.hist = hist, !.result = RetryError,
                                 !.replies = <<error_reply(RetryError.exc)>>]]
           /\ message_count' =
                  IF ~out.ok /\ ~should_retry(Len(hist), out)
                  THEN Put(message_count, u, Get0(message_count, u) - 1)
                  ELSE message_count
    /\ UNCHANGED <<clock, config, chats, last_message_time, reset_time, sent>>

Attempt(h, r) ==
    /\ task[h].pc = "call"
    /\ LET hist == Append(task[h].hist, r)
           out == get_response_once(r)
       IN  task' = [task EXCEPT ![h] =
               IF out.ok
               THEN [@ EXCEPT !.pc = "done", !.hist = hist, !.result = out,
                              !.replies = <<Reply("text", Truncate(out.text))>>]
               ELSE IF should_retry(Len(hist), out)
               THEN [@ EXCEPT !.pc = "sleep", !.hist = hist,
                              !.waits = Append(@, wait_exponential(Len(hist)))]
               ELSE [@ EXCEPT !.pc = "done", !.hist = hist, !.result = RetryError,
                              !.replies = <<error_reply(RetryError.exc)>>]]
    /\ UNCHANGED <<clock, config, chats, rate, sent>>

\* The backoff sleep is over.
Wake(h) ==
    /\ task[h].pc = "sleep"
    /\ task' = [task EXCEPT ![h].pc = "call"]
    /\ UNCHANGED <<clock, config, chats, rate, sent>>

\* The task is cancelled while suspended (CancelledError is not an
\* Exception: no except clause of handle_message runs).
Cancel(h) ==
    /\ task[h].pc \in {"get_me", "sleep"}
    /\ task' = [task EXCEPT ![h] = [@ EXCEPT !.pc = "cancelled", !.chat = None,
                                             !.text = None]]
    /\ UNCHANGED <<clock, config, chats, rate, sent>>

\* "Check if group is in whitelist": TRUE iff handle_new_chat_members leaves.
not_allowed_group(chat_id) ==
    allowed_groups.present /\ chat_id \notin allowed_groups.list

LeaveNotice == Reply("leaving", <<>>)

\* A new_chat_members update of group g: the bot itself was added
\* (bot_added), or other members were added to a group the bot is in.  The
\* handler reads only CONFIG between its awaits (get_me, reply_text, leave).
handle_new_chat_members(g, bot_added) ==
    /\ IF bot_added THEN chats[g].bot # "in" ELSE chats[g].bot = "in"
    /\ chats' =
          IF bot_added /\ not_allowed_group(g)
          THEN [chats EXCEPT ![g] = [bot |-> "left", replies |-> <<LeaveNotice>>]]
          ELSE IF bot_added
          THEN [chats EXCEPT ![g] = [bot |-> "in", replies |-> <<>>]]
          ELSE chats
    /\ UNCHANGED <<clock, config, rate, task, sent>>

\* One step of the bot: time passes, or one handler task of H runs from one
\* suspension point to the next, on an update (user of U, chat and text of
\* In) or on a response of Up.
Step(H, U, In, Up) ==
    \/ Tick
    \/ \E h \in H, u \in U, in \in In : Receive(h, u, in[1], in[2])
    \/ \E h \in H, d \in {0, 1} : Process(h, d)
    \/ \E h \in H, r \in Up : Attempt(h, r)
    \/ \E h \in H : Wake(h)
    \/ \E h \in H : Cancel(h)

\* The rate limiter under concurrent questions of all users, for every
\* configuration of quota and cooldown; the completion API either does not
\* answer or answers with a long text.
Upstream == {NoResponse, Ok(<<T3, T1>>)}
Init == Start(0..MaxQuota, 0..MaxCooldown, {{}}) /\ StartChats({Unset}, {"out"})
Next == Step(Handlers, Users, {<<"private", "plain">>}, Upstream)
Spec == Init /\ [][Next]_vars

\* The message handler on every kind of update, with and without a user
\* allow-list, for one configuration of quota and cooldown.
InitHandler == Start({1}, {1}, {{}, {"u1"}}) /\ StartChats({Unset}, {"out"})
NextHandler == Step(Handlers, Users, ChatTypes \X TextKinds, Upstream)
SpecHandler == InitHandler /\ [][NextHandler]_vars

\* The completion client on every kind of response, called for the questions
\* of one user.
InitClient == Start({MaxQuota}, {0}, {{}}) /\ StartChats({Unset}, {"out"})
NextClient == Step({"h1"}, {"u1"}, {<<"private", "plain">>}, Responses)
SpecClient == InitClient /\ [][NextClient]_vars

\* The bot in groups: the group allow-list unset, empty or naming one group;
\* the bot is added to groups and receives private and group messages.
GroupLists == {Unset, Listed({}), Listed({"g1"})}
InitGroup ==
    /\ Start({1}, {0}, {{}, {"u1"}})
    /\ StartChats(GroupLists, {"out", "in"})
NextGroup ==
    \/ Step({"h1"}, Users, ({"private"} \cup Groups) \X {"plain", "mentionq"},
            Upstream)
    \/ \E g \in Groups, bot_added \in BOOLEAN : handle_new_chat_members(g, bot_added)
SpecGroup == InitGroup /\ [][NextGroup]_vars

\* ======================================================================
\* Properties
\* ======================================================================

\* The update of handler task h reaches the rate limit check.
Routed(h) ==
    /\ task[h].pc = "get_me"
    /\ ~(task[h].chat # "private" /\ ~HasMention(task[h].text))
    /\ Question(task[h].chat, task[h].text)

\* This step is the one in which h's message is checked (and, if admitted,
\* recorded).
CheckStep(h) == Routed(h) /\ task'[h].pc \in {"call", "done"}
Admitted(h) == CheckStep(h) /\ task'[h].why = "admitted" /\ task'[h].pc = "call"

Elapsed(u) == u \in DOMAIN reset_time /\ clock > reset_time[u]
InCooldown(u) ==
    u \in DOMAIN last_message_time /\ clock - last_message_time[u] < cooldown_time
InFlight(h) == task[h].pc \in {"call", "sleep"}

\* C1: admission is atomic per user.  The step that admits a message is the
\* step that records it: the message was checked against the latest admitted
\* message of its user (no admission within the cooldown of the one before),
\* and in the same step last_message_time is set and message_count grows by
\* exactly one over the count the check left (no increment is lost).
C1_AtomicAdmission ==
    [][\A h \in Handlers : Admitted(h) =>
          LET u == task[h].user IN
          /\ u \in DOMAIN sent => clock - sent[u].at >= cooldown_time
          /\ u \in DOMAIN last_message_time'
          /\ last_message_time'[u] = clock'
          /\ last_message_time'[u] = sent'[u].at
          /\ message_count'[u] = (IF Elapsed(u) THEN 0 ELSE Get0(message_count, u)) + 1
      ]_vars

\* Two messages of one user are admitted and in flight together, with a
\* cooldown configured.
C1_Witness ==
    \E u \in Users :
        /\ \A h \in Handlers : InFlight(h) /\ task[h].user = u
        /\ cooldown_time > 0
        /\ message_count[u] = 2

\* C2: a check made less than the cooldown after the user's last recorded
\* message is denied by the cooldown test, and that step changes neither
\* last_message_time nor reset_time (nor the history of admitted messages).
C2_CooldownDenied ==
    [][\A h \in Handlers : (CheckStep(h) /\ InCooldown(task[h].user)) =>
          /\ task'[h].pc = "done"
          /\ task'[h].why = "cooldown"
          /\ last_message_time' = last_message_time
          /\ reset_time' = reset_time
          /\ sent' = sent
      ]_vars

\* Two checks of one user were denied by the cooldown and the user's last
\* recorded time is still the time of the admitted message.
C2_Witness ==
    \E u \in Users :
        /\ \A h \in Handlers : task[h].why = "cooldown" /\ task[h].user = u
        /\ u \in DOMAIN sent
        /\ last_message_time[u] = sent[u].at
        /\ clock - last_message_time[u] < cooldown_time

\* C3: when exactly max_messages messages of a user are recorded in the
\* clock hour of the last one, a check made in that hour is denied; it is
\* denied by the quota test when the cooldown has elapsed (the cooldown test
\* comes first and denies a check made within the cooldown).
C3_QuotaDenied ==
    [][\A h \in Handlers :
          LET u == task[h].user IN
          (/\ CheckStep(h)
           /\ u \in DOMAIN sent
           /\ sent[u].n = max_messages
           /\ next_hour(clock) = next_hour(sent[u].at)) =>
              /\ task'[h].pc = "done"
              /\ task'[h].why \in {"cooldown", "quota"}
              /\ ~InCooldown(u) => task'[h].why = "quota"
      ]_vars

\* A check was denied by the quota test after the cooldown had elapsed, in
\* the hour in which the quota was used up.
C3_Witness ==
    \E h \in Handlers :
        LET u == task[h].user IN
        /\ task[h].why = "quota"
        /\ u \in DOMAIN sent
        /\ sent[u].n = max_messages
        /\ cooldown_time > 0
        /\ clock - last_message_time[u] >= cooldown_time
        /\ next_hour(clock) = reset_time[u]

\* C4: a check made after reset_time has passed and outside the cooldown is
\* admitted, whatever the count was (a used-up quota included), and the
\* count restarts from 0: after the message is recorded it is 1.
C4_WindowReset ==
    [][\A h \in Handlers :
          LET u == task[h].user IN
          (CheckStep(h) /\ Elapsed(u) /\ ~InCooldown(u)) =>
              /\ Admitted(h)
              /\ message_count'[u] = 1
      ]_vars

\* A user was denied by the quota test with two messages counted, and a
\* later message of that user is admitted with the count at 1.
C4_Witness ==
    \E g, h \in Handlers :
        /\ task[g].why = "quota"
        /\ task[h].why = "admitted"
        /\ task[g].user = task[h].user
        /\ max_messages = 2
        /\ sent[task[h].user].n = 1
        /\ message_count[task[h].user] = 1

\* C5 as stated: the first check of a user with no recorded message
\* succeeds for every configuration.
C5_FirstAdmittedAnyConfig ==
    [][\A h \in Handlers :
          LET u == task[h].user IN
          (/\ CheckStep(h)
           /\ u \notin DOMAIN last_message_time
           /\ u \notin DOMAIN reset_time) => Admitted(h)
      ]_vars

\* C5: the first check of a user with no recorded message succeeds for every
\* cooldown and every max_messages_per_hour of at least 1.
C5_FirstAdmitted ==
    [][\A h \in Handlers :
          LET u == task[h].user IN
          (/\ CheckStep(h)
           /\ u \notin DOMAIN last_message_time
           /\ u \notin DOMAIN reset_time
           /\ max_messages >= 1) => Admitted(h)
      ]_vars

\* The first message of a user has been admitted.
C5_Witness ==
    \E h \in Handlers :
        LET u == task[h].user IN
        /\ task[h].why = "admitted"
        /\ clock = 0
        /\ message_count[u] = 1
        /\ cooldown_time = MaxCooldown
        /\ max_messages = 1

\* ---------------------------------------------------------------------
\* The completion client

\* The classification of one attempt by its response: success, or a failure
\* that is transient (no response, 5xx) or permanent (4xx, no content).
Success(r) == r.status = 200 /\ r.haskey /\ Len(r.content) > 0
Transient(r) == r.status = 0 \/ r.status >= 500
Permanent(r) == ~Success(r) /\ ~Transient(r)

\* C6 as stated: an attempt that fails with a permanent classification is
\* the last attempt of its call: the call is over and no retry is pending.
C6_PermanentNotRetried ==
    \A h \in Handlers : \A i \in 1..Len(task[h].hist) :
        Permanent(task[h].hist[i]) =>
            /\ i = Len(task[h].hist)
            /\ task[h].pc = "done"

\* C7: a call makes at most 3 attempts; while a retry is pending fewer than
\* 3 were made, and when the third attempt fails the call is over with a
\* failure, which the handler answers with the generic message.
C7_AtMostThreeAttempts ==
    \A h \in Handlers :
        /\ Len(task[h].hist) <= 3
        /\ InFlight(h) => Len(task[h].hist) < 3
        /\ (Len(task[h].hist) = 3 /\ ~Success(task[h].hist[3])) =>
              /\ task[h].pc = "done"
              /\ ~task[h].result.ok
              /\ task[h].result.exc # None
              /\ task[h].replies = <<GenericError>>

\* Three attempts failed and the call ended in a failure.
C7_Witness ==
    \E h \in Handlers :
        /\ Len(task[h].hist) = 3
        /\ \A i \in 1..3 : ~Success(task[h].hist[i])
        /\ task[h].pc = "done"
        /\ ~task[h].result.ok

\* C8: a successful attempt ends the call, which returns the first text of
\* that attempt's response (so every attempt before it failed and none
\* follows it); and after two transient failures the call has not given up:
\* a third attempt is pending unless the task was cancelled.
C8_FirstSuccessReturned ==
    \A h \in Handlers :
        LET hist == task[h].hist IN
        /\ \A i \in 1..Len(hist) : Success(hist[i]) =>
              /\ i = Len(hist)
              /\ task[h].pc = "done"
              /\ task[h].result.ok
              /\ task[h].result.text = hist[i].content[1]
        /\ (Len(hist) = 2 /\ Transient(hist[1]) /\ Transient(hist[2])) =>
              task[h].pc \in {"sleep", "call", "cancelled"}

\* Two transient failures, then a success whose text is returned.
C8_Witness ==
    \E h \in Handlers :
        LET hist == task[h].hist IN
        /\ Len(hist) = 3
        /\ Transient(hist[1]) /\ hist[1].status = 0
        /\ Transient(hist[2]) /\ hist[2].status = 500
        /\ Success(hist[3])
        /\ Len(hist[3].content) = 2
        /\ task[h].result.text = T3

\* ---------------------------------------------------------------------
\* The message handler

Unauthorized(u) == allowed_users # {} /\ u \notin allowed_users
HasRateState(u) ==
    u \in DOMAIN last_message_time \cup DOMAIN message_count \cup DOMAIN reset_time
Called(h) == InFlight(h) \/ Len(task[h].hist) > 0

\* In every state: a message of a sender outside a non-empty allow-list, or
\* one denied by the rate limiter, is over without any completion request; only an
\* admitted message of an authorized sender has a completion call; a sender
\* outside the allow-list has no rate state, and the step that turns the
\* sender away changes no rate state.
C9_Inv ==
    /\ \A h \in Handlers :
          /\ task[h].why \in {"unauthorized", "cooldown", "quota"} =>
                /\ task[h].pc = "done"
                /\ task[h].hist = <<>>
          /\ Called(h) =>
                /\ task[h].why = "admitted"
                /\ ~Unauthorized(task[h].user)
          /\ (task[h].pc # "idle" /\ Unauthorized(task[h].user)) =>
                task[h].why \in {"notext", "unauthorized"}
    /\ \A u \in Users : Unauthorized(u) => ~HasRateState(u)

\* C9: admission and authorization failures short-circuit before any
\* completion request (the invariant above, in every reachable state), and
\* the step that turns an unauthorized sender away leaves the rate state
\* as it was.
C9_ShortCircuit ==
    /\ []C9_Inv
    /\ [][\A h \in Handlers :
             (task'[h] # task[h] /\ task'[h].why = "unauthorized") =>
                 UNCHANGED <<rate, sent>>]_vars

\* With an allow-list configured, one sender was turned away and a message
\* of an allowed sender was denied by the rate limiter.
C9_Witness ==
    \E g, h \in Handlers :
        /\ task[g].why = "unauthorized"
        /\ task[g].replies = <<NoPermission>>
        /\ task[h].why \in {"cooldown", "quota"}
        /\ HasRateState(task[h].user)

\* In every state: a completion call runs only for a recorded message (its
\* user's last_message_time and reset_time are set before the first attempt), and
\* no step of a call (an attempt that succeeds or fails, the end of a
\* backoff, a cancellation) changes the rate state.
C10_Inv ==
    \A h \in Handlers : Called(h) =>
        /\ task[h].user \in DOMAIN last_message_time
        /\ task[h].user \in DOMAIN reset_time
        /\ task[h].user \in DOMAIN message_count
        /\ task[h].user \in DOMAIN sent
        /\ last_message_time[task[h].user] >= sent[task[h].user].at

\* C10: the rate state is updated before the completion call begins (the
\* invariant above) and a call that fails, is abandoned or is cancelled
\* leaves it exactly as recorded: nothing is rolled back.
C10_RecordedBeforeCall ==
    /\ []C10_Inv
    /\ [][\A h \in Handlers :
             (InFlight(h) /\ task'[h] # task[h]) => UNCHANGED <<rate, sent>>]_vars

\* One admitted message ended in the generic failure, another was cancelled
\* during its call, and both are still counted.
C10_Witness ==
    \E g, h \in Handlers :
        /\ task[g].why = "admitted" /\ task[g].replies = <<GenericError>>
        /\ task[h].why = "admitted" /\ task[h].pc = "cancelled"
        /\ task[g].user # task[h].user
        /\ message_count[task[g].user] = 1
        /\ message_count[task[h].user] = 1

\* C11: when the completion call of an admitted message has failed for good
\* (its retries are used up), the handler has sent exactly one reply, the
\* fixed generic failure text; and no reply of any task carries the name or
\* text of an exception.
ExceptionTexts == {"RequestException", "Exception", "RetryError"}
C11_GenericFailureReply ==
    \A h \in Handlers :
        /\ (task[h].pc = "done" /\ task[h].why = "admitted" /\ ~task[h].result.ok) =>
              /\ Len(task[h].replies) = 1
              /\ task[h].replies[1] = [kind |-> "error", text |-> <<>>]
        /\ \A i \in 1..Len(task[h].replies) :
              \A j \in 1..Len(task[h].replies[i].text) :
                  task[h].replies[i].text[j] \notin ExceptionTexts

\* A call failed three times, the last time with an HTTP error, and the
\* generic reply was sent.
C11_Witness ==
    \E h \in Handlers :
        /\ Len(task[h].hist) = 3
        /\ task[h].hist[3].status = 500
        /\ task[h].result.exc = "RetryError"
        /\ task[h].replies = <<GenericError>>

\* C12 as stated: a call in which every attempt failed with a
\* RequestException (no response, or an HTTP error status) ends by raising
\* a RequestException to its caller.
RaisesRequestException(r) == r.status = 0 \/ r.status >= 400
C12_RequestExceptionRaised ==
    \A h \in Handlers :
        (/\ task[h].pc = "done"
         /\ task[h].hist # <<>>
         /\ \A i \in 1..Len(task[h].hist) : RaisesRequestException(task[h].hist[i]))
        => task[h].result.exc = "RequestException"

\* C13: a call returns a text only from a response with a non-empty content
\* array, and the text is the first element of that array, as it is; a
\* response without a content key or with an empty content array is a
\* failed attempt: no text is returned and no text reply is sent for it.
NoContent(r) == r.status = 200 /\ (~r.haskey \/ Len(r.content) = 0)
C13_FirstTextReturned ==
    \A h \in Handlers :
        LET hist == task[h].hist
            n == Len(hist)
        IN  /\ task[h].result.ok =>
                  /\ n > 0
                  /\ hist[n].status = 200
                  /\ hist[n].haskey
                  /\ Len(hist[n].content) > 0
                  /\ task[h].result.text = Head(hist[n].content)
            /\ (n > 0 /\ NoContent(hist[n])) =>
                  /\ ~task[h].result.ok
                  /\ task[h].result.text = <<>>
                  /\ \A i \in 1..Len(task[h].replies) :
                        task[h].replies[i].kind # "text"

\* A response with two content elements was answered with the first text,
\* and (another call) a response with an empty content array was a failure.
C13_Witness ==
    /\ \E h \in Handlers :
          /\ task[h].result.ok
          /\ Len(task[h].hist) = 1
          /\ task[h].hist[1].content = <<T3, T1>>
          /\ task[h].result.text = T3

\* The reply of handler h is the returned text cut to its first
\* MaxResponseLength characters with the marker appended when it is longer,
\* and the returned text itself otherwise.
SentAsExpected(h) ==
    LET text == task[h].result.text IN
    /\ Len(task[h].replies) = 1
    /\ task[h].replies[1].kind = "text"
    /\ task[h].replies[1].text =
          IF Len(text) > MaxResponseLength
          THEN [i \in 1..(MaxResponseLength + 1) |->
                   IF i <= MaxResponseLength THEN text[i]
                   ELSE "...(response truncated)"]
          ELSE text

\* C14 as stated: a returned text longer than the bound is sent as its first
\* MaxResponseLength characters and the marker, a shorter one unchanged, and
\* the text sent never exceeds the bound.
C14_NeverExceedsBound ==
    \A h \in Handlers : task[h].result.ok =>
        /\ SentAsExpected(h)
        /\ Len(task[h].replies[1].text) <= MaxResponseLength

\* C19: the wait before attempt n (n = 2, 3) of a call is
\* min(max(4, 2^(n-2)), 10); every wait lies between 4 and 10 and the waits
\* of one call never decrease.
C19_BackoffWaits ==
    \A h \in Handlers :
        LET waits == task[h].waits IN
        /\ Len(waits) <= MaxAttempts - 1
        /\ task[h].pc = "sleep" => Len(waits) = Len(task[h].hist)
        /\ \A i \in 1..Len(waits) :
              /\ waits[i] = Min2(Max2(4, 2^((i + 1) - 2) * 1), 10)
              /\ waits[i] >= 4
              /\ waits[i] <= 10
              /\ i > 1 => waits[i] >= waits[i - 1]

\* A call made its third attempt, after two backoff waits.
C19_Witness ==
    \E h \in Handlers :
        /\ Len(task[h].hist) = 3
        /\ Len(task[h].waits) = 2

\* ---------------------------------------------------------------------
\* The rate window

\* C17 as stated: after an update the user's message_count is the number of
\* that user's messages recorded in the clock hour that ends at the new
\* reset_time.
C17_CountIsWindowCount ==
    [][\A h \in Handlers : Admitted(h) =>
          message_count'[task[h].user] = sent'[task[h].user].n
      ]_vars

\* C18: reset_time is the start of the clock hour after the user's last
\* recorded message: an hour boundary, strictly later than
\* last_message_time and at most one hour later; an update in the clock hour
\* of the previous one leaves reset_time as it was.
C18_ResetAtNextHour ==
    /\ [](\A u \in DOMAIN last_message_time :
            /\ u \in DOMAIN reset_time
            /\ reset_time[u] % HourLen = 0
            /\ reset_time[u] > last_message_time[u]
            /\ reset_time[u] <= last_message_time[u] + HourLen)
    /\ [][\A h \in Handlers :
            LET u == task[h].user IN
            (/\ Admitted(h)
             /\ u \in DOMAIN last_message_time
             /\ last_message_time[u] \div HourLen = clock' \div HourLen) =>
                reset_time'[u] = reset_time[u]
         ]_vars

\* Two messages of a user were recorded in one clock hour, the second in the
\* middle of the hour, and reset_time is the end of that hour.
C18_Witness ==
    \E u \in DOMAIN sent :
        /\ sent[u].n = 2
        /\ last_message_time[u] % HourLen = 1
        /\ reset_time[u] = last_message_time[u] + 1
        /\ clock >= HourLen

\* ---------------------------------------------------------------------
\* Group messages

\* Handler h holds a group message whose text has no mention of the bot.
GroupNoMention(h) ==
    /\ task[h].chat \in ChatTypes \ {"private"}
    /\ task[h].text \in TextKinds
    /\ HasText(task[h].text)
    /\ ~HasMention(task[h].text)

\* C20 as stated: a group message without the bot's mention produces no
\* reply, no change of the rate state and no completion call; the same text
\* in a private chat is processed (it reaches the rate limit check).
C20_NoMentionSilent ==
    /\ [](\A h \in Handlers : GroupNoMention(h) =>
             /\ task[h].replies = <<>>
             /\ ~Called(h))
    /\ [][\A h \in Handlers :
             /\ (task[h].pc = "get_me" /\ GroupNoMention(h) /\ task'[h] # task[h]) =>
                   /\ UNCHANGED <<rate, sent>>
                   /\ task'[h].replies = <<>>
                   /\ task'[h].pc \in {"done", "cancelled"}
             /\ (/\ task[h].pc = "get_me"
                 /\ task[h].chat = "private"
                 /\ task[h].text = "plain"
                 /\ task'[h].pc \notin {"get_me", "cancelled"}) =>
                   task'[h].why \in {"admitted", "cooldown", "quota"}
         ]_vars

\* ---------------------------------------------------------------------
\* The group allow-list

\* A group allow-list is configured (it names at least one group) and
\* chat is a group it does not name.
Configured == allowed_groups.present /\ allowed_groups.list # {}
ForeignGroup(chat) ==
    chat \in Groups /\ Configured /\ chat \notin allowed_groups.list

\* C15 as stated: on a join of the bot, the bot leaves exactly when a group
\* allow-list is configured and the group is absent from it; with the
\* allow-list unset or empty no join makes it leave, and a listed group is
\* never left.
C15_LeaveIffAbsent ==
    [][\A g \in Groups :
          (chats'[g] # chats[g]) =>
              (chats'[g].bot = "left" <=> ForeignGroup(g))
      ]_vars

\* C16 as stated: no reply at all is sent to a sender outside a non-empty
\* user allow-list, nor to a message from a group outside a configured
\* group allow-list (the handler ends without a reply and without a call).
C16_SilentWhenNotAllowed ==
    /\ [](\A h \in Handlers :
             (task[h].pc # "idle" /\ task[h].why = "unauthorized") =>
                 task[h].replies = <<>>)
    /\ [][\A h \in Handlers :
             (/\ task[h].pc = "get_me"
              /\ ForeignGroup(task[h].chat)
              /\ task'[h] # task[h]) =>
                 /\ task'[h].replies = <<>>
                 /\ task'[h].pc \in {"done", "cancelled"}
         ]_vars

\* ---------------------------------------------------------------------
\* The quota bound and the isolation of users

\* C21: in every reachable state every user's message_count is at most
\* max_messages, for every interleaving of messages and advance of time.
C21_CountWithinQuota ==
    \A u \in DOMAIN message_count :
        /\ message_count[u] >= 0
        /\ message_count[u] <= max_messages

\* Both users have used up a quota of two, and a further message of one of
\* them was denied by the quota test.
C21_Witness ==
    /\ max_messages = MaxQuota
    /\ \A u \in Users : u \in DOMAIN message_count /\ message_count[u] = max_messages
    /\ \E h \in Handlers : task[h].why = "quota"

\* The entry of user u in dict d, or the fact that there is none.
Entry(d, u) == IF u \in DOMAIN d THEN <<d[u]>> ELSE <<>>
RateState(u) ==
    <<Entry(last_message_time, u), Entry(message_count, u), Entry(reset_time, u)>>

\* C22: the step that checks (and records) a message of one user leaves the
\* rate state of every other user as it was, and with it the verdict a
\* check of that other user would get at that time; no step removes a
\* user's rate state.
C22_PerUserIsolation ==
    [][/\ \A h \in Handlers : CheckStep(h) =>
             \A v \in Users \ {task[h].user} :
                 /\ RateState(v)' = RateState(v)
                 /\ can_send_message(last_message_time', message_count',
                                     reset_time', v, clock').why
                    = can_send_message(last_message_time, message_count,
                                       reset_time, v, clock').why
       /\ DOMAIN last_message_time \subseteq DOMAIN last_message_time'
       /\ DOMAIN message_count \subseteq DOMAIN message_count'
       /\ DOMAIN reset_time \subseteq DOMAIN reset_time'
      ]_vars

\* One user's window has elapsed and that user's count was reset and
\* restarted, while the other user's message of the later hour is still
\* counted.
C22_Witness ==
    \E u, v \in DOMAIN sent :
        /\ u # v
        /\ sent[v].at >= HourLen
        /\ message_count[v] = 1
        /\ sent[u].at > sent[v].at
        /\ reset_time[u] > reset_time[v]
        /\ message_count[u] = 1
        /\ \E h \in Handlers : task[h].user = u /\ task[h].why = "admitted"

====
